---- MODULE Spec2Model ----
(***************************************************************************)
(* ORBITAL coordination core (src/script.js): the event bus, the state     *)
(* store and the analytics queue, run by one thread of control.            *)
(*                                                                         *)
(* The JavaScript objects are modelled as they behave:                     *)
(*  - `events`, `listeners` and `store` are plain objects ({}), so a       *)
(*    property read falls through to Object.prototype when the object has  *)
(*    no own property of that name;                                        *)
(*  - arrays are heap objects with an identity: `push` changes the array   *)
(*    in place, `filter` allocates a new one, and `forEach` fixes the      *)
(*    range it visits (the length) before the first callback and reads     *)
(*    each element when it reaches it;                                     *)
(*  - a callback runs on top of the dispatch that invoked it and may call  *)
(*    any operation of the core, return, or raise; nothing in the core     *)
(*    catches, so an error unwinds every dispatch in progress.             *)
(***************************************************************************)
EXTENDS Integers, Sequences, FiniteSets, TLC

\* ------------------------------------------------------------------ bounds
MaxBusOps == 4
MaxStoreOps == 4
MaxOps == 4
MaxLogCalls == 52
MaxSpecial == 1
MaxCopyOps == 4
MaxBootOps == 4
MaxEvents == 2

\* ------------------------------------------------------------ input sets
Handlers == {"h1", "h2"}
PlainTopics == {"x", "y"}
Topics == PlainTopics \cup {"constructor"}
PlainKeys == {"theme", "network"}
Keys == PlainKeys \cup {"constructor", "__proto__"}
Values == {"dark", "light", "null"}
Data == {"d5", "d6"}
Null == "null"

\* the topics, keys and subscribers of the shipped modules
LifecycleEvent == "app:init"
AppTopics ==
  {"ui:button:click", "form:submit", "form:success", "theme:toggle",
   "modal:open", "modal:close"}
AppKeys ==
  {"scroll:y", "scroll:direction", "scroll:tick", "page:visible",
   "form:valid", "form:dirty", "theme", "motion:reduced", "viewport:width",
   "viewport:height", "performance:loadTime", "menu:open", "network",
   "storage:available", "feature:report"}
Subscribers ==
  {"navbar.handleScroll", "fn443", "fn447", "fn527", "fn531", "fn1167",
   "fn1171", "fn1209", "fn1316"}
AllTopics == Topics \cup {LifecycleEvent} \cup AppTopics
AllKeys == Keys \cup AppKeys

\* ------------------------------------------------- JavaScript object model
Undefined == "undefined"
Absent == "absent"
ObjectPrototype == "Object.prototype"
ObjectFunction == "function Object"
NoArray == 0

VARIABLES
  heap,        \* the array objects allocated so far, by identity (index)
  events,      \* own properties of `events`: topic -> array identity
  listeners,   \* own properties of `listeners`: key -> array identity
  store,       \* own properties of `store`: key -> value
  storeProto,  \* the prototype of `store`
  records,     \* the event objects created so far, by identity (index)
  queue,       \* the analytics queue: the identities of its event objects
  now,         \* the instant Date.now() returns next
  stack,       \* the forEach dispatches in progress, innermost last
  result,      \* what the last get returned
  copy,        \* the array getQueue returned, while its caller holds it
  lastOp,      \* the last operation called and how it ended
  done,        \* the dispatch that ended last (history)
  gone,        \* <<topic, handler>> unregistered and not registered since (history)
  setTo,       \* the value of the latest set call, per key (history)
  nsub,        \* number of subscribe calls that returned, per key and callback (history)
  emitted,     \* number of emit calls, per topic (history)
  nops,        \* operations called so far
  limit,       \* operations the run may call
  nspecial,    \* records logged so far that are not of the common shape
  page,        \* the host page: document, localStorage and media state, by name
  dom,         \* the listeners added to the DOM, per DOM event, in order
  task,        \* the DOM listeners the host has still to run for the event
               \* it is delivering, the running one first
  pcs,         \* the statements left to each function of the script that runs
  ir,          \* the call the running function has reached
  nevents      \* host events delivered so far

vars == <<heap, events, listeners, store, storeProto, records, queue, now, stack,
          result, copy, lastOp, done, gone, setTo, nsub, emitted, nops, limit,
          nspecial,
          page, dom, task, pcs, ir, nevents>>

coreVars == <<heap, events, listeners, store, storeProto>>
queueVars == <<records, queue, now, copy, nspecial>>
hostVars == <<page, dom, task, pcs, ir, nevents>>

\* --------------------------------------------------------------- helpers
Range(s) == {s[i] : i \in 1..Len(s)}

Filter(s, h) == SelectSeq(s, LAMBDA e : e # h)

Count(s, e) == Cardinality({i \in 1..Len(s) : s[i] = e})

IsPrefix(p, s) == Len(p) <= Len(s) /\ SubSeq(s, 1, Len(p)) = p

IsSuffix(p, s) == Len(p) <= Len(s) /\ SubSeq(s, Len(s) - Len(p) + 1, Len(s)) = p

Top == stack[Len(stack)]

\* code may call an operation of the core when the host runs (no dispatch
\* in progress) or when a callback of the innermost dispatch runs
CanCall == nops < limit /\ (IF stack = <<>> THEN TRUE ELSE Top.running)

\* events[event] / listeners[key]: own property, else Object.prototype
InheritedMember(name) == name \in {"constructor", "__proto__"}

\* the value of obj[name] is an array of this model
IsArray(obj, name) == obj[name] # NoArray

\* the value of obj[name] is truthy but no array (a member of Object.prototype)
IsForeign(obj, name) == obj[name] = NoArray /\ InheritedMember(name)

\* the handlers registered for a topic / subscribed to a key, in order
Reg(obj, name) == IF IsArray(obj, name) THEN heap[obj[name]] ELSE <<>>


\* ------------------------------------------------------ dispatch records
\* One forEach in progress.  arr, len, k and running are what the engine
\* keeps; the other fields are history, recorded when the dispatch began or
\* as it went, and never read by an operation.
NoDispatch ==
  [kind |-> "none", name |-> "", data |-> "", calls |-> <<>>, opno |-> 0,
   status |-> "none"]

Brief(f) ==
  [kind |-> f.kind, name |-> f.name, data |-> f.data, calls |-> f.calls,
   opno |-> f.opno, status |-> f.status]

\* Array.prototype.forEach: "the range of elements processed is set before
\* the first call to the callback"
ForEachBegin(kind, obj, name, data) ==
  [kind |-> kind, name |-> name, data |-> data,
   arr |-> obj[name], len |-> Len(heap[obj[name]]), k |-> 0, running |-> FALSE,
   status |-> "active",
   atcall |-> heap[obj[name]],
   calls |-> <<>>,
   opno |-> nops + 1,
   removed |-> {},
   tail |-> <<>>,
   writes |-> 0,
   heard |-> [key \in AllKeys |-> Reg(listeners, key)],
   last |-> [h \in Handlers \cup Subscribers |-> "none"],
   banned |-> {h \in Handlers : <<name, h>> \in gone},
   subs |-> [h \in Handlers |-> IF kind = "set" THEN nsub[<<name, h>>] ELSE 0],
   prev |-> Brief(done)]

NoFrame ==
  [kind |-> "none", name |-> "", data |-> "", arr |-> NoArray, len |-> 0,
   k |-> 0, running |-> FALSE, status |-> "none", atcall |-> <<>>,
   calls |-> <<>>, opno |-> 0, removed |-> {}, tail |-> <<>>, writes |-> 0,
   heard |-> [key \in AllKeys |-> <<>>],
   last |-> [h \in Handlers \cup Subscribers |-> "none"], banned |-> {},
   subs |-> [h \in Handlers |-> 0], prev |-> NoDispatch]

\* the index up to which a forEach visits its array
RangeEndLive(f) == Len(heap[f.arr])

RangeEnd(f) == f.len

\* the element a forEach hands to its callback at step k+1
ElementBackwards(f) == heap[f.arr][Len(heap[f.arr]) - f.k]

Element(f) == heap[f.arr][f.k + 1]

\* handler => handler(data) and fn => fn(value): the callback's argument
Argument(f) == f.data

\* an uncaught error leaves every dispatch in progress
Unwound == IF stack = <<>> THEN done ELSE [Top EXCEPT !.status = "raised"]

\* who calls: the host (<<0, 0>>), or the k-th callback of the dispatch that
\* operation number opno began
Caller == IF stack = <<>> THEN <<0, 0>> ELSE <<Top.opno, Top.k>>

Called(op, a, b, err) == [op |-> op, a |-> a, b |-> b, err |-> err, by |-> Caller]

\* history kept in the dispatches of a topic (kind "emit") or key ("set")
Noted(kind, name, Note(_)) ==
  IF stack = <<>> THEN <<>>
  ELSE [i \in 1..Len(stack) |->
          IF stack[i].kind = kind /\ stack[i].name = name
          THEN Note(stack[i])
          ELSE stack[i]]

NoteAppend(kind, name, h) ==
  Noted(kind, name,
        LAMBDA f : [f EXCEPT !.tail = Append(@, h), !.removed = @ \ {h}])

NoteRemove(kind, name, h) ==
  Noted(kind, name,
        LAMBDA f : [f EXCEPT !.tail = Filter(@, h), !.removed = @ \cup {h}])

NoteCall(kind, name, h, data) ==
  Noted(kind, name,
        LAMBDA f : IF h \in DOMAIN f.last THEN [f EXCEPT !.last[h] = data] ELSE f)

NoteWrite(name) ==
  Noted("set", name, LAMBDA f : [f EXCEPT !.writes = @ + 1])

\* TypeError: obj[name] is a member of Object.prototype, which has no
\* push, filter or forEach
TypeError(op, a, b) ==
  /\ stack' = <<>>
  /\ done' = Unwound
  /\ lastOp' = Called(op, a, b, "TypeError")

\* ------------------------------------------------------------ event bus
\* events[event].filter(h => h !== handler)
FilterFirst(arr, handler) ==
  IF handler \in Range(arr)
  THEN LET i == CHOOSE j \in 1..Len(arr) :
                  arr[j] = handler /\ \A m \in 1..(j - 1) : arr[m] # handler
       IN SubSeq(arr, 1, i - 1) \o SubSeq(arr, i + 1, Len(arr))
  ELSE arr

FilterOut(arr, handler) == Filter(arr, handler)

\* events[event].push(handler)
PushFront(arr, handler) == <<handler>> \o arr

Push(arr, handler) == Append(arr, handler)

On(event, handler) ==
  /\ CanCall
  /\ nops' = nops + 1
  /\ IF IsForeign(events, event)
     THEN /\ TypeError("on", event, handler)
          /\ UNCHANGED <<heap, events, gone>>
     ELSE /\ IF IsArray(events, event)
             THEN /\ heap' = [heap EXCEPT ![events[event]] = Push(@, handler)]
                  /\ events' = events
             ELSE /\ heap' = Append(heap, Push(<<>>, handler))
                  /\ events' = [events EXCEPT ![event] = Len(heap) + 1]
          /\ gone' = gone \ {<<event, handler>>}
          /\ stack' = NoteAppend("emit", event, handler)
          /\ lastOp' = Called("on", event, handler, "none")
          /\ done' = done
  /\ UNCHANGED <<listeners, store, storeProto, result, nsub, limit, setTo>>
  /\ UNCHANGED queueVars
  /\ UNCHANGED hostVars
  /\ emitted' = emitted

OffInPlace(event, handler) ==
  /\ CanCall
  /\ nops' = nops + 1
  /\ IF IsForeign(events, event)
     THEN /\ TypeError("off", event, handler)
          /\ UNCHANGED <<heap, events, gone>>
     ELSE /\ IF IsArray(events, event)
             THEN heap' = [heap EXCEPT ![events[event]] = FilterOut(@, handler)]
             ELSE heap' = heap
          /\ events' = events
          /\ gone' = gone \cup {<<event, handler>>}
          /\ stack' = NoteRemove("emit", event, handler)
          /\ lastOp' = Called("off", event, handler, "none")
          /\ done' = done
  /\ UNCHANGED <<listeners, store, storeProto, result, nsub, limit, setTo>>
  /\ UNCHANGED queueVars
  /\ UNCHANGED hostVars
  /\ emitted' = emitted

Off(event, handler) ==
  /\ CanCall
  /\ nops' = nops + 1
  /\ IF IsForeign(events, event)
     THEN /\ TypeError("off", event, handler)
          /\ UNCHANGED <<heap, events, gone>>
     ELSE /\ IF IsArray(events, event)
             THEN /\ heap' = Append(heap, FilterOut(heap[events[event]], handler))
                  /\ events' = [events EXCEPT ![event] = Len(heap) + 1]
             ELSE /\ heap' = heap
                  /\ events' = events
          /\ gone' = gone \cup {<<event, handler>>}
          /\ stack' = NoteRemove("emit", event, handler)
          /\ lastOp' = Called("off", event, handler, "none")
          /\ done' = done
  /\ UNCHANGED <<listeners, store, storeProto, result, nsub, limit, setTo>>
  /\ UNCHANGED queueVars
  /\ UNCHANGED hostVars
  /\ emitted' = emitted

Emit(event, data) ==
  /\ CanCall
  /\ nops' = nops + 1
  /\ IF IsForeign(events, event)
     THEN TypeError("emit", event, data)
     ELSE /\ stack' = IF IsArray(events, event)
                      THEN Append(stack, ForEachBegin("emit", events, event, data))
                      ELSE stack
          /\ lastOp' = Called("emit", event, data, "none")
          /\ done' = done
  /\ emitted' = [emitted EXCEPT ![event] = @ + 1]
  /\ UNCHANGED <<result, gone, nsub, limit, setTo>>
  /\ UNCHANGED coreVars
  /\ UNCHANGED queueVars
  /\ UNCHANGED hostVars

\* ------------------------------------------------- forEach and callbacks
\* one iteration of forEach: an index the array no longer has is skipped
Invoke ==
  /\ stack # <<>>
  /\ ~Top.running
  /\ Top.k < RangeEnd(Top)
  /\ stack' = IF Top.k + 1 <= Len(heap[Top.arr])
               THEN [NoteCall(Top.kind, Top.name, Element(Top), Argument(Top))
                       EXCEPT ![Len(stack)] =
                         [@ EXCEPT !.k = @ + 1, !.running = TRUE,
                                   !.calls = Append(@, <<Element(Top), Argument(Top)>>)]]
               ELSE [stack EXCEPT ![Len(stack)] = [@ EXCEPT !.k = @ + 1]]
  /\ UNCHANGED <<result, lastOp, done, gone, nsub, nops, limit, setTo>>
  /\ UNCHANGED coreVars
  /\ UNCHANGED queueVars
  /\ UNCHANGED hostVars
  /\ emitted' = emitted

CallbackReturn ==
  /\ stack # <<>>
  /\ Top.running
  /\ stack' = [stack EXCEPT ![Len(stack)].running = FALSE]
  /\ UNCHANGED <<result, lastOp, done, gone, nsub, nops, limit, setTo>>
  /\ UNCHANGED coreVars
  /\ UNCHANGED queueVars
  /\ UNCHANGED hostVars
  /\ emitted' = emitted

\* a forEach that catches what its callback throws and goes on
CallbackThrowCaught ==
  /\ stack # <<>>
  /\ Top.running
  /\ stack' = [stack EXCEPT ![Len(stack)].running = FALSE]
  /\ done' = done
  /\ lastOp' = Called("throw", Top.name, Top.calls[Len(Top.calls)][1], "Error")
  /\ UNCHANGED <<result, gone, nsub, nops, limit, setTo>>
  /\ UNCHANGED coreVars
  /\ UNCHANGED queueVars
  /\ UNCHANGED hostVars
  /\ emitted' = emitted

CallbackThrow ==
  /\ stack # <<>>
  /\ Top.running
  /\ stack' = <<>>
  /\ done' = Unwound
  /\ lastOp' = Called("throw", Top.name, Top.calls[Len(Top.calls)][1], "Error")
  /\ UNCHANGED <<result, gone, nsub, nops, limit, setTo>>
  /\ UNCHANGED coreVars
  /\ UNCHANGED queueVars
  /\ UNCHANGED hostVars
  /\ emitted' = emitted

ForEachReturn ==
  /\ stack # <<>>
  /\ ~Top.running
  /\ Top.k >= RangeEnd(Top)
  /\ stack' = SubSeq(stack, 1, Len(stack) - 1)
  /\ done' = [Top EXCEPT !.status = "returned"]
  /\ UNCHANGED <<result, lastOp, gone, nsub, nops, limit, setTo>>
  /\ UNCHANGED coreVars
  /\ UNCHANGED queueVars
  /\ UNCHANGED hostVars
  /\ emitted' = emitted

Dispatch == Invoke \/ CallbackReturn \/ CallbackThrow \/ ForEachReturn


\* ---------------------------------------------------------- state store
\* store[key]: an own property, else what Object.prototype gives
StoreRead(key) ==
  IF store[key] # Absent THEN store[key]
  ELSE IF storeProto # ObjectPrototype THEN Undefined
  ELSE IF key = "__proto__" THEN ObjectPrototype
  ELSE IF key = "constructor" THEN ObjectFunction
  ELSE Undefined

\* store[key] = value.  While store inherits the __proto__ accessor, a write
\* to "__proto__" goes to its setter: null replaces the prototype, a
\* primitive is ignored.  Any other write defines an own property.
WriteKept(key, value) == [own |-> store, proto |-> storeProto]

StoreWrite(key, value) ==
  IF key = "__proto__" /\ store[key] = Absent /\ storeProto = ObjectPrototype
  THEN [own |-> store,
        proto |-> IF value = "null" THEN "null" ELSE storeProto]
  ELSE [own |-> [store EXCEPT ![key] = value], proto |-> storeProto]

Get(key) ==
  /\ CanCall
  /\ nops' = nops + 1
  /\ result' = StoreRead(key)
  /\ lastOp' = Called("get", key, "", "none")
  /\ UNCHANGED <<stack, done, gone, nsub, limit, setTo>>
  /\ UNCHANGED coreVars
  /\ UNCHANGED queueVars
  /\ UNCHANGED hostVars
  /\ emitted' = emitted

SetWhenIdle(key, value) ==
  /\ CanCall
  /\ nops' = nops + 1
  /\ setTo' = [setTo EXCEPT ![key] = value]
  /\ store' = StoreWrite(key, value).own
  /\ storeProto' = StoreWrite(key, value).proto
  /\ IF IsForeign(listeners, key)
     THEN TypeError("set", key, value)
     ELSE /\ stack' = IF IsArray(listeners, key) /\ stack = <<>>
                      THEN Append(NoteWrite(key),
                                  ForEachBegin("set", listeners, key, value))
                      ELSE NoteWrite(key)
          /\ lastOp' = Called("set", key, value, "none")
          /\ done' = done
  /\ UNCHANGED <<heap, events, listeners, result, gone, nsub, limit>>
  /\ UNCHANGED queueVars
  /\ UNCHANGED hostVars
  /\ emitted' = emitted

SetIfChanged(key, value) ==
  /\ CanCall
  /\ nops' = nops + 1
  /\ setTo' = [setTo EXCEPT ![key] = value]
  /\ store' = StoreWrite(key, value).own
  /\ storeProto' = StoreWrite(key, value).proto
  /\ IF IsForeign(listeners, key)
     THEN TypeError("set", key, value)
     ELSE /\ stack' = IF IsArray(listeners, key) /\ StoreRead(key) # value
                      THEN Append(NoteWrite(key),
                                  ForEachBegin("set", listeners, key, value))
                      ELSE NoteWrite(key)
          /\ lastOp' = Called("set", key, value, "none")
          /\ done' = done
  /\ UNCHANGED <<heap, events, listeners, result, gone, nsub, limit>>
  /\ UNCHANGED queueVars
  /\ UNCHANGED hostVars
  /\ emitted' = emitted

Set(key, value) ==
  /\ CanCall
  /\ nops' = nops + 1
  /\ setTo' = [setTo EXCEPT ![key] = value]
  /\ store' = StoreWrite(key, value).own
  /\ storeProto' = StoreWrite(key, value).proto
  /\ IF IsForeign(listeners, key)
     THEN TypeError("set", key, value)
     ELSE /\ stack' = IF IsArray(listeners, key)
                      THEN Append(NoteWrite(key),
                                  ForEachBegin("set", listeners, key, value))
                      ELSE NoteWrite(key)
          /\ lastOp' = Called("set", key, value, "none")
          /\ done' = done
  /\ UNCHANGED <<heap, events, listeners, result, gone, nsub, limit>>
  /\ UNCHANGED queueVars
  /\ UNCHANGED hostVars
  /\ emitted' = emitted

SubscribeTwice(key, fn) ==
  /\ CanCall
  /\ nops' = nops + 1
  /\ IF IsForeign(listeners, key)
     THEN /\ TypeError("subscribe", key, fn)
          /\ UNCHANGED <<heap, listeners, nsub>>
     ELSE /\ IF IsArray(listeners, key)
             THEN /\ heap' = [heap EXCEPT ![listeners[key]] = Push(Push(@, fn), fn)]
                  /\ listeners' = listeners
             ELSE /\ heap' = Append(heap, Push(Push(<<>>, fn), fn))
                  /\ listeners' = [listeners EXCEPT ![key] = Len(heap) + 1]
          /\ nsub' = [nsub EXCEPT ![<<key, fn>>] = @ + 1]
          /\ stack' = NoteAppend("set", key, fn)
          /\ lastOp' = Called("subscribe", key, fn, "none")
          /\ done' = done
  /\ UNCHANGED <<events, store, storeProto, result, gone, limit, setTo>>
  /\ UNCHANGED queueVars
  /\ UNCHANGED hostVars
  /\ emitted' = emitted

Subscribe(key, fn) ==
  /\ CanCall
  /\ nops' = nops + 1
  /\ IF IsForeign(listeners, key)
     THEN /\ TypeError("subscribe", key, fn)
          /\ UNCHANGED <<heap, listeners, nsub>>
     ELSE /\ IF IsArray(listeners, key)
             THEN /\ heap' = [heap EXCEPT ![listeners[key]] = Push(@, fn)]
                  /\ listeners' = listeners
             ELSE /\ heap' = Append(heap, Push(<<>>, fn))
                  /\ listeners' = [listeners EXCEPT ![key] = Len(heap) + 1]
          /\ nsub' = [nsub EXCEPT ![<<key, fn>>] = @ + 1]
          /\ stack' = NoteAppend("set", key, fn)
          /\ lastOp' = Called("subscribe", key, fn, "none")
          /\ done' = done
  /\ UNCHANGED <<events, store, storeProto, result, gone, limit, setTo>>
  /\ UNCHANGED queueVars
  /\ UNCHANGED hostVars
  /\ emitted' = emitted

\* ------------------------------------------------------- analytics queue
MAX_QUEUE == 50

Types == {"t1", "t2"}
Omitted == "omitted"
Payloads == {Omitted, "p1", Null}
Pathname == "/"

\* the record shape most calls of a run log; the others are counted
IsCommon(type, payload) == type = "t2" /\ payload = Omitted

\* function log(type, payload = {})
EventOf(type, payload) ==
  [type |-> type,
   payload |-> IF payload = Omitted THEN "{}" ELSE payload,
   timestamp |-> now,
   url |-> Pathname]

\* ORBITAL.utils.log(...args): prints when config.debug is set, and returns
UtilsLog(line) ==
  IF page["config.debug"] = "true" THEN [page EXCEPT !["console"] = line]
  ELSE page

\* if (queue.length > MAX_QUEUE) queue.shift()
EvictNewest(q) == IF Len(q) > MAX_QUEUE THEN SubSeq(q, 1, Len(q) - 1) ELSE q

KeepAll(q) == q

Evict(q) == IF Len(q) > MAX_QUEUE THEN Tail(q) ELSE q

\* a log that reads a property of its payload
LogChecked(type, payload) ==
  /\ CanCall
  /\ nops' = nops + 1
  /\ nspecial' = IF IsCommon(type, payload) THEN nspecial ELSE nspecial + 1
  /\ records' = IF payload = Null THEN records
                ELSE Append(records, EventOf(type, payload))
  /\ queue' = IF payload = Null THEN queue
              ELSE Evict(Append(queue, Len(records) + 1))
  /\ now' = now + 1
  /\ copy' = <<>>
  /\ IF payload = Null
     THEN TypeError("log", type, payload)
     ELSE /\ lastOp' = Called("log", type, payload, "none")
          /\ UNCHANGED <<stack, done>>
  /\ UNCHANGED <<result, gone, nsub, limit, setTo>>
  /\ UNCHANGED coreVars
  /\ page' = UtilsLog("Analytics:")
  /\ UNCHANGED <<dom, task, pcs, ir, nevents>>
  /\ emitted' = emitted

Log(type, payload) ==
  /\ CanCall
  /\ nops' = nops + 1
  /\ nspecial' = IF IsCommon(type, payload) THEN nspecial ELSE nspecial + 1
  /\ records' = Append(records, EventOf(type, payload))
  /\ queue' = Evict(Append(queue, Len(records) + 1))
  /\ now' = now + 1
  /\ copy' = <<>>
  /\ lastOp' = Called("log", type, payload, "none")
  /\ UNCHANGED <<stack, result, done, gone, nsub, limit, setTo>>
  /\ UNCHANGED coreVars
  /\ page' = UtilsLog("Analytics:")
  /\ UNCHANGED <<dom, task, pcs, ir, nevents>>
  /\ emitted' = emitted

\* return [...queue]: a new array of the same event objects
GetQueue ==
  /\ stack = <<>>
  /\ copy' = queue
  /\ lastOp' = Called("getQueue", "", "", "none")
  /\ UNCHANGED <<records, queue, now, nspecial, nops>>
  /\ UNCHANGED <<stack, result, done, gone, nsub, limit, setTo>>
  /\ UNCHANGED coreVars
  /\ UNCHANGED hostVars
  /\ emitted' = emitted

\* what an array of event objects shows its reader
Contents(q) == [i \in 1..Len(q) |-> records[q[i]]]

\* the caller of getQueue changes the array it was given, or an event object
\* it reaches through it
Holding == lastOp.op \in {"getQueue", "mutate"}

Mutated(how, what) ==
  /\ stack = <<>>
  /\ Holding
  /\ nops < limit
  /\ nops' = nops + 1
  /\ lastOp' = Called("mutate", how, what, "none")
  /\ UNCHANGED <<queue, now, nspecial>>
  /\ UNCHANGED <<stack, result, done, gone, nsub, limit, setTo>>
  /\ UNCHANGED coreVars
  /\ UNCHANGED hostVars
  /\ emitted' = emitted

\* copy.push(e)
CopyPush(e) ==
  /\ Mutated("push", e)
  /\ copy' = Append(copy, e)
  /\ records' = records

\* copy.pop()
CopyPop ==
  /\ copy # <<>>
  /\ Mutated("pop", Len(copy))
  /\ copy' = SubSeq(copy, 1, Len(copy) - 1)
  /\ records' = records

\* copy.reverse()
CopyReverse ==
  /\ Len(copy) > 1
  /\ Mutated("reverse", Len(copy))
  /\ copy' = [i \in 1..Len(copy) |-> copy[Len(copy) + 1 - i]]
  /\ records' = records

\* copy[i].type = type: the array is new, the event object is the queue's
CopySetType(i, type) ==
  /\ i \in 1..Len(copy)
  /\ Mutated("type", i)
  /\ records' = [records EXCEPT ![copy[i]].type = type]
  /\ copy' = copy


\* ------------------------------------------------------------ host page
\* What the script reads from and writes to the page, by name.  The page
\* itself (index.html) is outside the script: a run starts from any of the
\* values InitPage allows.
Cells ==
  {"readyState", "window.ORBITAL", "orbital:theme", "orbital:persist:theme",
   "orbital:persist:menu:open", "dataset.theme", "prefers-color-scheme",
   "onLine", "visibilityState", "lastY", "inThrottle", "config.debug",
   "console", "activeModal", "m1.is-open", "m2.is-open", "body.modal-open",
   "body.overflow"}

\* the elements of the page that [data-modal-open] buttons name
Modals == {"m1", "m2"}

DomEvents ==
  {"DOMContentLoaded", "btn click", "document click", "scroll", "keydown",
   "visibilitychange", "submit", "input", "resize", "load", "error",
   "unhandledrejection", "beforeunload", "change", "online", "offline",
   "timeout"}

\* one statement of the script that changes the modelled state
Stmt(op, a, b) == [op |-> op, a |-> a, b |-> b]

CoreOps == {"on", "emit", "set", "subscribe", "log"}

\* const ORBITAL = {...} at the top level of a classic script declares a
\* binding of the script scope; it defines no property of the global object,
\* so window.ORBITAL is whatever the page gives that name
WindowORBITAL == page["window.ORBITAL"]

\* localStorage.getItem(STORAGE_KEY) || getSystemTheme()
SavedTheme == page["orbital:theme"]
SystemTheme == IF page["prefers-color-scheme"] = "dark" THEN "dark" ELSE "light"
Flip(theme) == IF theme = "dark" THEN "light" ELSE "dark"

\* JSON.stringify(value) and JSON.parse(text) for the values persisted
Stringify(value) ==
  CASE value = "dark" -> "\"dark\""
    [] value = "light" -> "\"light\""
    [] OTHER -> value

Parse(text) ==
  CASE text = "\"dark\"" -> "dark"
    [] text = "\"light\"" -> "light"
    [] OTHER -> text

\* persistence.load(key)
Load(key) ==
  IF page["orbital:persist:" \o key] = Null THEN Null
  ELSE Parse(page["orbital:persist:" \o key])

\* document.visibilityState === "visible"
PageVisible == IF page["visibilityState"] = "visible" THEN "true" ELSE "false"

\* navigator.onLine ? "online" : "offline"
NetworkStatus == IF page["onLine"] = "true" THEN "online" ELSE "offline"

\* an applyTheme that publishes theme:toggle itself
ApplyThemeAndToggle(theme) ==
  <<Stmt("write", "dataset.theme", theme), Stmt("set", "theme", theme),
    Stmt("write", "orbital:theme", theme),
    Stmt("emit", "theme:toggle", Undefined)>>

\* applyTheme(theme)
ApplyTheme(theme) ==
  <<Stmt("write", "dataset.theme", theme), Stmt("set", "theme", theme),
    Stmt("write", "orbital:theme", theme)>>

\* the app:init handlers, in the order the script registers them
Initializers ==
  <<"scroll.init", "navbar.init", "reveal.init", "buttons.init",
    "shortcuts.init", "visibility.init", "formValidation.init",
    "formFeedback.init", "uxState.init", "theme.init", "preferences.init",
    "uiSync.init", "delegation.init", "fn570", "scrollPerformance.init",
    "resize.init", "lazyImages.init", "lazySections.init",
    "performance.init", "fn725", "modal.init", "menu.init", "bodyLock.init",
    "fn841", "uiTracking.init", "errorTracking.init", "session.init",
    "fn975", "focusTrap.init", "aria.init", "restore.init", "keyboard.init",
    "fn1113", "persistence.init", "autoPersist.init", "network.init",
    "offlineUX.init", "storageGuard.init", "fn1245", "guard.init",
    "featureReport.init", "degradation.init", "fn1334">>

\* the top level of the script: what it does when the page loads it
TopLevel ==
  <<Stmt("listen", "DOMContentLoaded", "ORBITAL.init")>> \o
  [i \in 1..Len(Initializers) |-> Stmt("on", LifecycleEvent, Initializers[i])]


\* the modal handlers read a property of their argument: emit("modal:close")
\* hands them undefined
OfModal(modal, stmts) ==
  IF modal = Undefined THEN <<Stmt("throw", "TypeError", "")>> ELSE stmts

\* modal.open(modal)
ModalOpen(modal) ==
  IF modal = Null THEN <<>>
  ELSE <<Stmt("write", modal \o ".is-open", "true"),
         Stmt("write", "body.modal-open", "true"),
         Stmt("write", "activeModal", modal),
         Stmt("emit", "modal:open", modal)>>

\* modal.close()
ModalClose ==
  IF page["activeModal"] = Null THEN <<>>
  ELSE <<Stmt("write", page["activeModal"] \o ".is-open", "false"),
         Stmt("write", "body.modal-open", "false"),
         Stmt("emit", "modal:close", page["activeModal"]),
         Stmt("write", "activeModal", Null)>>

\* The statements of each function of the script that touch the modelled
\* state, in program order, for the argument it is called with; the values it
\* reads from the page are read when it is entered.
Body(fn, arg) ==
  CASE fn = "script" -> TopLevel
    [] fn = "ORBITAL.init" -> <<Stmt("emit", LifecycleEvent, Undefined)>>
    \* ---- initializers
    [] fn = "scroll.init" -> <<Stmt("listen", "scroll", "scroll.onScroll")>>
    [] fn = "navbar.init" ->
         <<Stmt("subscribe", "scroll:y", "navbar.handleScroll")>>
    [] fn = "reveal.init" ->
         <<Stmt("listen", "scroll", "reveal.revealOnScroll")>>
    [] fn = "buttons.init" -> <<Stmt("listen", "btn click", "fn226")>>
    [] fn = "shortcuts.init" ->
         <<Stmt("listen", "keydown", "shortcuts.handleKey")>>
    [] fn = "visibility.init" ->
         <<Stmt("listen", "visibilitychange", "visibility.handleVisibility"),
           Stmt("set", "page:visible", PageVisible)>>
    [] fn = "formValidation.init" ->
         <<Stmt("listen", "input", "fn381"), Stmt("listen", "submit", "fn386")>>
    [] fn = "formFeedback.init" ->
         <<Stmt("on", "form:submit", "formFeedback.handleSubmit")>>
    [] fn = "uxState.init" ->
         <<Stmt("subscribe", "form:dirty", "fn443"),
           Stmt("subscribe", "form:valid", "fn447")>>
    [] fn = "theme.init" ->
         ApplyTheme(IF SavedTheme # Null THEN SavedTheme ELSE SystemTheme) \o
         <<Stmt("on", "theme:toggle", "theme.toggleTheme")>>
    [] fn = "preferences.init" ->
         <<Stmt("set", "motion:reduced", "false"),
           Stmt("listen", "change", "preferences.detectMotion")>>
    [] fn = "uiSync.init" ->
         <<Stmt("subscribe", "scroll:y", "fn527"),
           Stmt("subscribe", "form:valid", "fn531")>>
    [] fn = "delegation.init" ->
         <<Stmt("listen", "document click", "delegation.handleClick")>>
    [] fn = "scrollPerformance.init" -> <<Stmt("listen", "scroll", "fn609")>>
    [] fn = "resize.init" ->
         <<Stmt("listen", "resize", "resize.debounced"),
           Stmt("set", "viewport:width", "innerWidth"),
           Stmt("set", "viewport:height", "innerHeight")>>
    [] fn = "performance.init" -> <<Stmt("listen", "load", "fn707")>>
    [] fn = "modal.init" ->
         <<Stmt("listen", "document click", "modal.handleClick"),
           Stmt("listen", "keydown", "modal.handleKey")>>
    [] fn = "menu.init" -> <<Stmt("listen", "document click", "fn805")>>
    [] fn = "bodyLock.init" ->
         <<Stmt("on", "modal:open", "fn823"), Stmt("on", "modal:close", "fn827")>>
    [] fn = "uiTracking.init" ->
         <<Stmt("on", "ui:button:click", "fn887"),
           Stmt("on", "form:submit", "fn891"),
           Stmt("on", "modal:open", "fn897"),
           Stmt("on", "modal:close", "fn903")>>
    [] fn = "errorTracking.init" ->
         <<Stmt("listen", "error", "errorTracking.handleError"),
           Stmt("listen", "unhandledrejection", "errorTracking.handlePromise")>>
    [] fn = "session.init" ->
         <<Stmt("listen", "visibilitychange", "fn953"),
           Stmt("listen", "beforeunload", "fn959")>>
    [] fn = "focusTrap.init" ->
         <<Stmt("on", "modal:open", "focusTrap.trap"),
           Stmt("on", "modal:close", "focusTrap.release")>>
    [] fn = "aria.init" ->
         <<Stmt("on", "modal:open", "fn1039"),
           Stmt("on", "modal:close", "fn1044"),
           Stmt("on", "theme:toggle", "fn1048")>>
    [] fn = "restore.init" ->
         IF SavedTheme # Null
         THEN <<Stmt("write", "dataset.theme", SavedTheme),
                Stmt("set", "theme", SavedTheme)>>
         ELSE <<>>
    [] fn = "keyboard.init" -> <<Stmt("listen", "keydown", "fn1096")>>
    [] fn = "persistence.init" ->
         (IF Load("theme") # Null
          THEN <<Stmt("set", "theme", Load("theme"))>> ELSE <<>>) \o
         (IF Load("menu:open") # Null
          THEN <<Stmt("set", "menu:open", Load("menu:open"))>> ELSE <<>>)
    [] fn = "autoPersist.init" ->
         <<Stmt("subscribe", "theme", "fn1167"),
           Stmt("subscribe", "menu:open", "fn1171")>>
    [] fn = "network.init" ->
         <<Stmt("listen", "online", "network.update"),
           Stmt("listen", "offline", "network.update"),
           Stmt("set", "network", NetworkStatus)>>
    [] fn = "offlineUX.init" -> <<Stmt("subscribe", "network", "fn1209")>>
    [] fn = "storageGuard.init" -> <<Stmt("set", "storage:available", "true")>>
    [] fn = "guard.init" ->
         IF WindowORBITAL = Undefined
         THEN <<Stmt("throw", "Error", "ORBITAL core missing")>>
         ELSE <<>>
    [] fn = "featureReport.init" -> <<Stmt("set", "feature:report", "report")>>
    [] fn = "degradation.init" ->
         <<Stmt("subscribe", "feature:report", "fn1316")>>
    \* ---- handlers of the bus and subscribers of the store
    [] fn = "formFeedback.handleSubmit" ->
         IF arg = "valid" THEN <<Stmt("listen", "timeout", "fn421")>> ELSE <<>>
    [] fn = "theme.toggleTheme" ->
         ApplyTheme(Flip(IF page["dataset.theme"] # Null
                         THEN page["dataset.theme"] ELSE SystemTheme))
    [] fn = "fn823" -> <<Stmt("write", "body.overflow", "hidden")>>
    [] fn = "fn827" -> <<Stmt("write", "body.overflow", "")>>
    [] fn = "fn887" -> <<Stmt("log", "button_click", arg)>>
    [] fn = "fn891" -> <<Stmt("log", "form_submit", arg)>>
    [] fn = "fn897" -> OfModal(arg, <<Stmt("log", "modal_open", arg)>>)
    [] fn = "fn903" -> OfModal(arg, <<Stmt("log", "modal_close", arg)>>)
    [] fn \in {"focusTrap.trap", "focusTrap.release", "fn1039", "fn1044"} ->
         OfModal(arg, <<>>)
    [] fn = "fn1167" ->
         <<Stmt("write", "orbital:persist:theme", Stringify(arg))>>
    [] fn = "fn1171" ->
         <<Stmt("write", "orbital:persist:menu:open", Stringify(arg))>>
    \* ---- DOM listeners and timers
    [] fn = "fn226" -> <<Stmt("emit", "ui:button:click", "label")>>
    [] fn = "delegation.handleClick" ->
         IF arg = "theme-toggle"
         THEN <<Stmt("emit", "theme:toggle", Undefined)>> ELSE <<>>
    [] fn = "modal.handleClick" ->
         IF arg \in Modals THEN ModalOpen(arg)
         ELSE IF arg = "modal-close" THEN ModalClose
         ELSE <<>>
    [] fn = "modal.handleKey" -> IF arg = "Escape" THEN ModalClose ELSE <<>>
    [] fn = "fn1096" ->
         IF arg = "Escape" THEN <<Stmt("emit", "modal:close", Undefined)>>
         ELSE <<>>
    [] fn = "fn381" -> <<Stmt("set", "form:dirty", "true")>>
    [] fn = "fn386" ->
         <<Stmt("set", "form:valid", IF arg = "valid" THEN "true" ELSE "false"),
           Stmt("emit", "form:submit", arg)>>
    [] fn = "fn421" -> <<Stmt("emit", "form:success", Undefined)>>
    [] fn = "scroll.onScroll" ->
         <<Stmt("set", "scroll:y", arg),
           Stmt("set", "scroll:direction",
                IF arg = "100" /\ page["lastY"] = "0" THEN "down" ELSE "up"),
           Stmt("write", "lastY", arg)>>
    [] fn = "fn609" ->
         IF page["inThrottle"] = "false"
         THEN <<Stmt("set", "scroll:tick", "now"),
                Stmt("write", "inThrottle", "true"),
                Stmt("listen", "timeout", "fn603")>>
         ELSE <<>>
    [] fn = "fn603" -> <<Stmt("write", "inThrottle", "false")>>
    [] fn = "visibility.handleVisibility" ->
         <<Stmt("set", "page:visible", PageVisible)>>
    [] fn = "fn953" ->
         <<Stmt("log", "visibility_change", page["visibilityState"])>>
    [] fn = "network.update" -> <<Stmt("set", "network", NetworkStatus)>>
    [] OTHER -> <<>>


\* ------------------------------------------------- the script as it runs
\* The host runs one function at a time: the top level of the script, then
\* the listeners of each DOM event it delivers.  A function of the script
\* runs its statements in order; a call of the core is reached first and
\* then made by the action of the core.
NoCall == [op |-> "none", a |-> "", b |-> "", by |-> <<0, 0>>, at |-> 0]

Listener(fn, arg) == [fn |-> fn, arg |-> arg]

Listeners(event, arg) ==
  [i \in 1..Len(dom[event]) |-> Listener(dom[event][i], arg)]

\* a function of the script is running
Running == IF stack = <<>> THEN task # <<>> ELSE Top.running

\* the running function and its argument
Fn == IF stack = <<>> THEN Head(task).fn ELSE Top.calls[Len(Top.calls)][1]
Arg == IF stack = <<>> THEN Head(task).arg ELSE Top.calls[Len(Top.calls)][2]

\* the running function has reached a call it has not made yet
Pending == ir.op # "none" /\ ir.by = Caller /\ ir.at = nops

\* the functions still on the call stack
Active ==
  (IF task # <<>> THEN {<<0, 0>>} ELSE {}) \cup
  {<<stack[i].opno, stack[i].k>> : i \in 1..Len(stack)}

Kept == SelectSeq(pcs, LAMBDA e : e.id \in Active)

Entered == Kept # <<>> /\ Kept[Len(Kept)].id = Caller

\* the statements left to the running function
Frame ==
  IF Entered THEN Kept[Len(Kept)]
  ELSE [id |-> Caller, todo |-> Body(Fn, Arg), since |-> nops]

Below == IF Entered THEN SubSeq(Kept, 1, Len(Kept) - 1) ELSE Kept

\* an error of the running listener has unwound to the host
Escaped ==
  stack = <<>> /\ Entered /\ done.status = "raised" /\ done.opno > Frame.since

HostStep ==
  /\ Running
  /\ ~Pending
  /\ UNCHANGED <<stack, result, lastOp, done, gone, setTo, nsub, nops, limit>>
  /\ UNCHANGED coreVars
  /\ UNCHANGED queueVars
  /\ emitted' = emitted
  /\ nevents' = nevents

\* the running function reaches a call of the core, or a throw
Reach ==
  /\ HostStep
  /\ ~Escaped
  /\ Frame.todo # <<>>
  /\ Head(Frame.todo).op \in CoreOps \cup {"throw"}
  /\ ir' = [op |-> Head(Frame.todo).op, a |-> Head(Frame.todo).a,
            b |-> Head(Frame.todo).b, by |-> Caller, at |-> nops]
  /\ pcs' = Append(Below, [Frame EXCEPT !.todo = Tail(@)])
  /\ UNCHANGED <<page, dom, task>>

\* target.addEventListener(event, fn), setTimeout(fn, delay)
Listen ==
  /\ HostStep
  /\ ~Escaped
  /\ Frame.todo # <<>>
  /\ Head(Frame.todo).op = "listen"
  /\ dom' = [dom EXCEPT ![Head(Frame.todo).a] = Append(@, Head(Frame.todo).b)]
  /\ pcs' = Append(Below, [Frame EXCEPT !.todo = Tail(@)])
  /\ UNCHANGED <<page, task, ir>>

\* localStorage.setItem(name, value), root.dataset.theme = value, ...
Write ==
  /\ HostStep
  /\ ~Escaped
  /\ Frame.todo # <<>>
  /\ Head(Frame.todo).op = "write"
  /\ page' = [page EXCEPT ![Head(Frame.todo).a] = Head(Frame.todo).b]
  /\ pcs' = Append(Below, [Frame EXCEPT !.todo = Tail(@)])
  /\ UNCHANGED <<dom, task, ir>>

\* the running function has no statement left: a callback of the core
\* returns to its forEach, a listener to the host
End ==
  /\ HostStep
  /\ ~Escaped
  /\ Frame.todo = <<>>
  /\ pcs' = Below
  /\ IF stack = <<>>
     THEN task' = Tail(task) /\ ir' = ir
     ELSE /\ task' = task
          /\ ir' = [op |-> "return", a |-> "", b |-> "", by |-> Caller,
                    at |-> nops]
  /\ UNCHANGED <<page, dom>>

\* the host reports the error of a listener and goes on with the next one
Uncaught ==
  /\ HostStep
  /\ Escaped
  /\ task' = Tail(task)
  /\ pcs' = Below
  /\ UNCHANGED <<page, dom, ir>>

\* the calls of the core the script makes
ScriptOn == Pending /\ ir.op = "on" /\ On(ir.a, ir.b)
ScriptEmit == Pending /\ ir.op = "emit" /\ Emit(ir.a, ir.b)
ScriptSet == Pending /\ ir.op = "set" /\ Set(ir.a, ir.b)
ScriptSubscribe == Pending /\ ir.op = "subscribe" /\ Subscribe(ir.a, ir.b)
ScriptLog == Pending /\ ir.op = "log" /\ Log(ir.a, ir.b)
ScriptThrow == Pending /\ ir.op = "throw" /\ CallbackThrow
ScriptReturn == Pending /\ ir.op = "return" /\ CallbackReturn

Script ==
  \/ Reach \/ Listen \/ Write \/ End \/ Uncaught
  \/ ScriptOn \/ ScriptEmit \/ ScriptSet \/ ScriptSubscribe \/ ScriptLog
  \/ ScriptThrow \/ ScriptReturn
  \/ Invoke \/ ForEachReturn

\* ------------------------------------------------------------ host events
\* the host delivers an event when no script runs
Deliver(event, fns) ==
  /\ stack = <<>>
  /\ task = <<>>
  /\ task' = fns
  /\ lastOp' = Called("event", event, "", "none")
  /\ UNCHANGED <<stack, result, done, gone, setTo, nsub, nops, limit>>
  /\ UNCHANGED coreVars
  /\ UNCHANGED queueVars
  /\ UNCHANGED <<pcs, ir, emitted>>

\* document.addEventListener("DOMContentLoaded", ORBITAL.init): the host
\* fires it once, when it has parsed the page
\* a host that fires DOMContentLoaded again
DOMContentLoadedTwice ==
  /\ Deliver("DOMContentLoaded", Listeners("DOMContentLoaded", Undefined))
  /\ page' = [page EXCEPT !["readyState"] = "interactive"]
  /\ UNCHANGED <<dom, nevents>>

DOMContentLoaded ==
  /\ page["readyState"] = "loading"
  /\ Deliver("DOMContentLoaded", Listeners("DOMContentLoaded", Undefined))
  /\ page' = [page EXCEPT !["readyState"] = "interactive"]
  /\ UNCHANGED <<dom, nevents>>

UserEvent(event, fns) ==
  /\ nevents < MaxEvents
  /\ nevents' = nevents + 1
  /\ Deliver(event, fns)

\* a click on a .btn element, on an element with data-theme-toggle, on the
\* [data-modal-open] button of a modal, or on a [data-modal-close] element
Click(target) ==
  /\ UserEvent("click",
       (IF target = "btn" THEN Listeners("btn click", target) ELSE <<>>)
       \o Listeners("document click", target))
  /\ UNCHANGED <<page, dom>>

\* a key is pressed
KeyDown(key) ==
  /\ UserEvent("keydown", Listeners("keydown", key))
  /\ UNCHANGED <<page, dom>>

\* the form is submitted with every field valid, or not
Submit(valid) ==
  /\ UserEvent("submit", Listeners("submit", valid))
  /\ UNCHANGED <<page, dom>>

InputEvent ==
  /\ UserEvent("input", Listeners("input", Undefined))
  /\ UNCHANGED <<page, dom>>

ScrollTo(y) ==
  /\ UserEvent("scroll", Listeners("scroll", y))
  /\ UNCHANGED <<page, dom>>

GoOnline(on) ==
  /\ page["onLine"] # on
  /\ UserEvent(IF on = "true" THEN "online" ELSE "offline",
               Listeners(IF on = "true" THEN "online" ELSE "offline", Undefined))
  /\ page' = [page EXCEPT !["onLine"] = on]
  /\ dom' = dom

VisibilityChange ==
  /\ UserEvent("visibilitychange", Listeners("visibilitychange", Undefined))
  /\ page' = [page EXCEPT !["visibilityState"] =
                IF @ = "visible" THEN "hidden" ELSE "visible"]
  /\ dom' = dom

\* a timer set with setTimeout fires
Timeout(i) ==
  /\ i \in 1..Len(dom["timeout"])
  /\ Deliver("timeout", <<Listener(dom["timeout"][i], Undefined)>>)
  /\ dom' = [dom EXCEPT !["timeout"] =
               SubSeq(@, 1, i - 1) \o SubSeq(@, i + 1, Len(@))]
  /\ UNCHANGED <<page, nevents>>

HostEvent ==
  \/ DOMContentLoaded
  \/ \E target \in {"btn", "theme-toggle", "modal-close"} \cup Modals :
       Click(target)
  \/ KeyDown("Escape")
  \/ \E valid \in {"valid", "invalid"} : Submit(valid)
  \/ InputEvent
  \/ \E y \in {"0", "100"} : ScrollTo(y)
  \/ \E on \in {"true", "false"} : GoOnline(on)
  \/ VisibilityChange
  \/ \E i \in 1..MaxEvents : Timeout(i)

\* -------------------------------------------------------- specifications
InitCore ==
  /\ heap = <<>>
  /\ events = [t \in AllTopics |-> NoArray]
  /\ listeners = [k \in AllKeys |-> NoArray]
  /\ store = [k \in AllKeys |-> Absent]
  /\ storeProto = ObjectPrototype
  /\ records = <<>>
  /\ queue = <<>>
  /\ now = 0
  /\ stack = <<>>
  /\ result = Undefined
  /\ copy = <<>>
  /\ lastOp = Called("load", "", "", "none")
  /\ done = NoFrame
  /\ gone = {}
  /\ setTo = [k \in AllKeys |-> "never"]
  /\ nsub = [p \in AllKeys \X (Handlers \cup Subscribers) |-> 0]
  /\ emitted = [t \in AllTopics |-> 0]
  /\ nops = 0
  /\ nspecial = 0

\* no page: the core is driven directly
NoHost ==
  /\ page = [c \in Cells |-> IF c = "config.debug" THEN "false" ELSE Null]
  /\ dom = [e \in DomEvents |-> <<>>]
  /\ task = <<>>
  /\ pcs = <<>>
  /\ ir = NoCall
  /\ nevents = 0

BusOp ==
  \/ \E t \in Topics, h \in Handlers : On(t, h)
  \/ \E t \in Topics, h \in Handlers : Off(t, h)
  \/ \E t \in Topics, d \in Data : Emit(t, d)

StoreOp ==
  \/ \E k \in Keys : Get(k)
  \/ \E k \in Keys, v \in Values : Set(k, v)
  \/ \E k \in Keys, f \in Handlers : Subscribe(k, f)

QueueOp ==
  \/ \E t \in Types, p \in Payloads :
       /\ IsCommon(t, p) \/ nspecial < MaxSpecial
       /\ Log(t, p)
  \/ GetQueue

\* the event bus, driven by the host and by its own handlers
InitBus == InitCore /\ NoHost /\ limit = MaxBusOps
NextBus == BusOp \/ Dispatch
SpecBus == InitBus /\ [][NextBus]_vars

\* the state store, driven by the host and by its own subscribers
InitStore == InitCore /\ NoHost /\ limit = MaxStoreOps
NextStore == StoreOp \/ Dispatch
SpecStore == InitStore /\ [][NextStore]_vars

\* the bus and the store together: handlers may write the store and
\* subscribers may use the bus
Init == InitCore /\ NoHost /\ limit = MaxOps
Next == BusOp \/ StoreOp \/ Dispatch
Spec == Init /\ [][Next]_vars

\* shortcuts.handleKey on Ctrl + D: config.debug = !config.debug
ToggleDebug ==
  /\ stack = <<>>
  /\ task = <<>>
  /\ page' = [page EXCEPT !["config.debug"] =
                IF @ = "true" THEN "false" ELSE "true"]
  /\ UNCHANGED <<dom, task, pcs, ir, nevents>>
  /\ UNCHANGED <<stack, result, lastOp, done, gone, setTo, nsub, nops, limit>>
  /\ UNCHANGED coreVars
  /\ UNCHANGED queueVars
  /\ emitted' = emitted

\* the analytics queue, with the diagnostic flag switched at any moment
InitQueue == InitCore /\ NoHost /\ limit = MaxLogCalls
NextQueue == QueueOp \/ ToggleDebug
SpecQueue == InitQueue /\ [][NextQueue]_vars

\* the bus and the store with the lifecycle event: any code may register
\* initializers and subscribe before ORBITAL.init runs, and initializers may
\* write the store
OrbitalInit == Emit(LifecycleEvent, Undefined)

BootOp ==
  \/ \E h \in Handlers : On(LifecycleEvent, h)
  \/ OrbitalInit
  \/ \E k \in Keys, v \in Values : Set(k, v)
  \/ \E k \in Keys, f \in Handlers : Subscribe(k, f)

InitBoot == InitCore /\ NoHost /\ limit = MaxBootOps
NextBoot == BootOp \/ Dispatch
SpecBoot == InitBoot /\ [][NextBoot]_vars

\* the shipped script in a page: the host loads it, fires DOMContentLoaded
\* and delivers user events
InitPage ==
  /\ \E w \in {Undefined, "element"}, saved \in {Null, "dark"},
        kept \in {Null, Stringify("light")}, scheme \in {"dark", "light"} :
       page = [c \in Cells |->
                 CASE c = "readyState" -> "loading"
                   [] c = "window.ORBITAL" -> w
                   [] c = "orbital:theme" -> saved
                   [] c = "orbital:persist:theme" -> kept
                   [] c = "prefers-color-scheme" -> scheme
                   [] c = "onLine" -> "true"
                   [] c = "visibilityState" -> "visible"
                   [] c = "lastY" -> "0"
                   [] c = "inThrottle" -> "false"
                   [] c = "config.debug" -> "false"
                   [] c \in {"m1.is-open", "m2.is-open", "body.modal-open"} ->
                        "false"
                   [] c = "body.overflow" -> ""
                   [] OTHER -> Null]
  /\ dom = [e \in DomEvents |-> <<>>]
  /\ task = <<Listener("script", Undefined)>>
  /\ pcs = <<>>
  /\ ir = NoCall
  /\ nevents = 0

\* more calls of the core than a run of MaxEvents user events makes
AppOps == Len(Initializers) * (MaxEvents + 3)

InitApp == InitCore /\ InitPage /\ limit = AppOps
NextApp == HostEvent \/ Script
SpecApp == InitApp /\ [][NextApp]_vars

\* the same, with the engine always going on with the script that runs: a
\* function that has a statement left executes it, a forEach that has an
\* element left calls its callback
\* (started in the pages that have no theme saved by an earlier visit)
InitFair ==
  /\ InitApp
  /\ page["orbital:theme"] = Null
  /\ page["prefers-color-scheme"] = "dark"
FairApp == InitFair /\ [][NextApp]_vars /\ WF_vars(Script)

\* the shipped script in a page where other code calls ORBITAL.init once
\* more after startup
OrbitalInitAgain ==
  /\ page["readyState"] # "loading"
  /\ emitted[LifecycleEvent] = 1
  /\ Deliver("ORBITAL.init", <<Listener("ORBITAL.init", Undefined)>>)
  /\ UNCHANGED <<page, dom, nevents>>

NextReinit ==
  \/ DOMContentLoaded
  \/ OrbitalInitAgain
  \/ \E target \in {"btn"} : Click(target)
  \/ Script
SpecReinit == InitApp /\ [][NextReinit]_vars

\* the analytics queue and a caller that changes the arrays getQueue gave it
CopyOp ==
  \/ \E e \in 1..Len(records) : CopyPush(e)
  \/ CopyPop
  \/ CopyReverse
  \/ \E i \in 1..MaxCopyOps, t \in Types : CopySetType(i, t)

InitCopy == InitCore /\ NoHost /\ limit = MaxCopyOps
NextCopy == QueueOp \/ CopyOp
SpecCopy == InitCopy /\ [][NextCopy]_vars


\* ================================================================ claims
\* what a dispatch owes the callbacks that were in its array when it began:
\* one call each, in array order, with the data of the call
Delivered(f) ==
  IF f.atcall = <<>> THEN <<>>
  ELSE [i \in 1..Len(f.atcall) |-> <<f.atcall[i], f.data>>]

InProgress(kind) == {i \in 1..Len(stack) : stack[i].kind = kind}

Returned(kind) == done.kind = kind /\ done.status = "returned"

\* the step is a call of operation op that returned
StepIs(op) == nops' = nops + 1 /\ lastOp'.op = op /\ lastOp'.err = "none"

\* C1: the calls an emit(T, d) has made are, at every moment, the first
\* handlers of those registered for T when it was called, in registration
\* order, each with d; when the emit returns it has called every one of them,
\* once per registration, and nothing else (so no handler of another topic).
C1_PublishInOrder ==
  /\ \A i \in InProgress("emit") : IsPrefix(stack[i].calls, Delivered(stack[i]))
  /\ Returned("emit") => done.calls = Delivered(done)

C1_Witness ==
  /\ Returned("emit")
  /\ done.name = "x"
  /\ done.calls = << <<"h1", "d5">>, <<"h2", "d5">> >>
  /\ Reg(events, "y") = <<"h2">>

\* C2: an emit(T, d) during which off(T, h) was called still calls every
\* handler registered for T when it was called, h included, and h is out of
\* the registry of T, which the next emit(T, ...) reads.
C2_RemovalDuringDispatch ==
  /\ \A i \in InProgress("emit") :
       stack[i].removed # {} =>
         /\ IsPrefix(stack[i].calls, Delivered(stack[i]))
         /\ \A h \in stack[i].removed : h \notin Range(Reg(events, stack[i].name))
  /\ Returned("emit") /\ done.removed # {} => done.calls = Delivered(done)

C2_Witness ==
  /\ Returned("emit")
  /\ done.removed = {"h2"}
  /\ done.calls = << <<"h1", "d5">>, <<"h2", "d5">> >>
  /\ Reg(events, done.name) = <<"h1">>

\* C3: an emit(T, d) during which on(T, g) was called makes no call for that
\* registration (with or without an off on T earlier in the pass), and the
\* handlers registered during the pass stand, in order, at the end of the
\* registry of T, which the next emit(T, ...) reads.
C3_RegistrationDuringDispatch ==
  /\ \A i \in InProgress("emit") :
       stack[i].tail # <<>> =>
         /\ IsPrefix(stack[i].calls, Delivered(stack[i]))
         /\ IsSuffix(stack[i].tail, Reg(events, stack[i].name))
  /\ Returned("emit") /\ done.tail # <<>> => done.calls = Delivered(done)

C3_Witness ==
  /\ Returned("emit")
  /\ done.atcall = <<"h1">>
  /\ done.removed = {"h1"}
  /\ done.tail = <<"h2">>
  /\ done.calls = << <<"h1", "d5">> >>
  /\ Reg(events, done.name) = <<"h2">>

\* C4: off(T, h) takes every occurrence of h out of the registry of T and
\* leaves the other handlers of T, and every other topic, as they were and in
\* the same order; an emit(T, ...) called while h is unregistered never
\* calls h.
C4_NeverCalled ==
  /\ \A i \in InProgress("emit") :
       \A j \in 1..Len(stack[i].calls) : stack[i].calls[j][1] \notin stack[i].banned
  /\ done.kind = "emit" =>
       \A j \in 1..Len(done.calls) : done.calls[j][1] \notin done.banned

C4_OffStep ==
  \A t \in Topics, h \in Handlers :
    StepIs("off") /\ lastOp'.a = t /\ lastOp'.b = h =>
      /\ Reg(events, t)' = Filter(Reg(events, t), h)
      /\ \A u \in Topics \ {t} : Reg(events, u)' = Reg(events, u)

C4_Unregister == [](C4_NeverCalled) /\ [][C4_OffStep]_vars

C4_Witness ==
  /\ Returned("emit")
  /\ done.banned = {"h1"}
  /\ done.calls = << <<"h2", "d5">> >>
  /\ \E i \in 1..Len(heap) : heap[i] = <<"h1", "h2">>
  /\ Reg(events, done.name) = <<"h2">>


\* a get(key) was the last operation called, by a subscriber that a
\* set(key, ...) in progress is notifying
ReadDuringNotify ==
  /\ lastOp.op = "get"
  /\ stack # <<>>
  /\ Top.kind = "set"
  /\ Top.running
  /\ Top.name = lastOp.a
  /\ lastOp.by = <<Top.opno, Top.k>>

\* the calls a set(key, value) has made are the first subscribers of key, in
\* subscription order, each with value; when it returns it has called them
\* all and nothing else
C5_NotifyInOrder ==
  /\ \A i \in InProgress("set") : IsPrefix(stack[i].calls, Delivered(stack[i]))
  /\ Returned("set") => done.calls = Delivered(done)

\* C5 (as claimed): set(key, value) stores value and then calls every
\* subscriber of key, in subscription order, with value as the argument, and
\* a get(key) that a subscriber calls during its invocation returns value.
C5_SetThenNotify ==
  /\ C5_NotifyInOrder
  /\ ReadDuringNotify => result = Top.data

\* C5 (amended): as claimed, but the get(key) of a subscriber returns value
\* only while no set(key, ...) has been called since this set was called.
C5_SetThenNotifyUnlessRewritten ==
  /\ C5_NotifyInOrder
  /\ \A i \in InProgress("set") :
       stack[i].writes = 0 => StoreRead(stack[i].name) = stack[i].data
  /\ ReadDuringNotify /\ Top.writes = 0 => result = Top.data

C5_Witness ==
  /\ ReadDuringNotify
  /\ Top.writes = 0
  /\ Top.atcall = <<"h1", "h2">>
  /\ Top.calls = << <<"h1", "light">>, <<"h2", "light">> >>
  /\ result = "light"

\* C6: get(k) returns the unset sentinel while no set(k, _) has been
\* called, and afterwards the value of the latest set(k, _).
C6_GetReturnsLastSet ==
  lastOp.op = "get" =>
    result = (IF setTo[lastOp.a] = "never" THEN Undefined ELSE setTo[lastOp.a])

\* C7: a subscribe(k, fn) that returns starts no callback and ends no
\* dispatch; a set(k, v) that returns has called each fn with v once per
\* subscribe(k, fn) that returned before it was called, and made no other
\* call.
C7_NoCallAtSubscribe ==
  StepIs("subscribe") =>
    /\ done' = done
    /\ Len(stack') = Len(stack)
    /\ \A i \in 1..Len(stack) :
         /\ stack'[i].calls = stack[i].calls
         /\ stack'[i].running = stack[i].running

C7_OncePerSubscribe ==
  Returned("set") =>
    /\ \A fn \in Handlers : Count(done.calls, <<fn, done.data>>) = done.subs[fn]
    /\ \A j \in 1..Len(done.calls) : done.calls[j][2] = done.data

C7_Subscribe == [](C7_OncePerSubscribe) /\ [][C7_NoCallAtSubscribe]_vars

C7_Witness ==
  /\ lastOp.op = "subscribe"
  /\ lastOp.a = "theme"
  /\ lastOp.b = "h1"
  /\ lastOp.err = "none"
  /\ StoreRead("theme") = "dark"
  /\ stack = <<>>
  /\ Returned("set")
  /\ done.calls = << <<"h2", "dark">> >>
  /\ Reg(listeners, "theme") = <<"h2", "h1">>

\* C8: a set(k, v) called right after a set(k, v) that called its
\* subscribers and returned (no operation in between) begins a dispatch of
\* its own, and that dispatch calls every subscriber again, as the first did.
SecondOfTwo(f) ==
  /\ f.kind = "set"
  /\ f.prev.kind = "set"
  /\ f.prev.status = "returned"
  /\ f.prev.name = f.name
  /\ f.prev.data = f.data
  /\ f.prev.opno + 1 = f.opno

C8_SecondNotifies ==
  ( /\ StepIs("set")
    /\ Returned("set")
    /\ done.opno = nops
    /\ lastOp'.a = done.name
    /\ lastOp'.b = done.data )
  => /\ Len(stack') = Len(stack) + 1
     /\ stack'[Len(stack')].opno = nops'
     /\ SecondOfTwo(stack'[Len(stack')])

C8_SameCallsAgain ==
  Returned("set") /\ SecondOfTwo(done) =>
    /\ done.calls = done.prev.calls
    /\ done.calls = Delivered(done)

C8_NoEqualityCheck == [](C8_SameCallsAgain) /\ [][C8_SecondNotifies]_vars

C8_Witness ==
  /\ Returned("set")
  /\ SecondOfTwo(done)
  /\ done.calls = << <<"h1", "dark">>, <<"h2", "dark">> >>

\* C9: a set(k, v) during which subscribe(k, g) was called makes no call
\* for that subscription and calls every subscriber that k had when it was
\* called; the callbacks subscribed during the pass stand, in order, at the
\* end of the subscriber list of k, which the next set(k, ...) reads.
C9_SubscribeDuringNotify ==
  /\ \A i \in InProgress("set") :
       stack[i].tail # <<>> =>
         /\ IsPrefix(stack[i].calls, Delivered(stack[i]))
         /\ Reg(listeners, stack[i].name) = stack[i].atcall \o stack[i].tail
  /\ Returned("set") /\ done.tail # <<>> => done.calls = Delivered(done)

C9_Witness ==
  /\ Returned("set")
  /\ done.tail = <<"h2">>
  /\ done.calls = << <<"h1", "dark">> >>
  /\ Reg(listeners, done.name) = <<"h1", "h2">>

\* C10: the analytics queue never holds more than MAX_QUEUE records.
C10_QueueBounded == Len(queue) <= MAX_QUEUE

C10_Witness ==
  /\ Len(queue) = MAX_QUEUE
  /\ records[queue[1]].timestamp > 0
  /\ lastOp.op = "log"


\* -------------------------------------------------------------------- C11
Min(a, b) == IF a < b THEN a ELSE b

\* after n log calls the queue holds the last min(n, MAX_QUEUE) event
\* objects created, oldest first, and getQueue shows exactly those
C11_LastRecords ==
  LET n == Len(records)
      m == Min(n, MAX_QUEUE)
  IN /\ Len(queue) = m
     /\ \A i \in 1..m : queue[i] = n - m + i
     /\ lastOp.op = "getQueue" =>
          /\ Len(copy) = m
          /\ \A i \in 1..m : Contents(copy)[i] = records[n - m + i]

\* a log call appends its record and removes nothing, or only the head
C11_EvictsOldest ==
  StepIs("log") =>
    LET added == Append(queue, Len(records'))
    IN queue' = added \/ queue' = Tail(added)

\* C11: the analytics queue is first-in first-out with eviction at the head:
\* after n log calls getQueue returns the last min(n, MAX_QUEUE) records in
\* creation order, and a log call evicts at most the oldest record.
C11_Fifo == [](C11_LastRecords) /\ [][C11_EvictsOldest]_vars

C11_Witness ==
  /\ lastOp.op = "getQueue"
  /\ Len(records) = MAX_QUEUE + 2
  /\ Len(copy) = MAX_QUEUE
  /\ Contents(copy)[1] = records[3]

\* -------------------------------------------------------------------- C12
\* C12: no change a caller makes to the array getQueue returned, or to a
\* record in it, changes what the queue holds and a later getQueue shows.
C12_CopyIndependent ==
  [][StepIs("mutate") => Contents(queue)' = Contents(queue)]_vars

\* -------------------------------------------------------------------- C13
FiftyOneCalls ==
  /\ Len(records) = MAX_QUEUE + 1
  /\ records[1].type = "t1"
  /\ \A i \in 2..Len(records) : records[i].type = "t2"

\* C13 as stated: after log("t1") and then MAX_QUEUE calls of log("t2") the
\* queue holds MAX_QUEUE records, from the record of the second "t2" call to
\* the record of the last one.
C13_FirstIsSecondT2 ==
  FiftyOneCalls =>
    /\ Len(queue) = MAX_QUEUE
    /\ queue[1] = 3
    /\ queue[MAX_QUEUE] = MAX_QUEUE + 1

\* C13, amended: the one record evicted is the "t1" record, so the queue
\* runs from the record of the first "t2" call to the record of the last.
C13_FirstIsFirstT2 ==
  FiftyOneCalls =>
    /\ Len(queue) = MAX_QUEUE
    /\ \A i \in 1..MAX_QUEUE : queue[i] = i + 1
    /\ \A i \in 1..MAX_QUEUE : Contents(queue)[i].type = "t2"

C13_Witness ==
  /\ FiftyOneCalls
  /\ lastOp.op = "log"
  /\ queue[1] = 2
  /\ queue[MAX_QUEUE] = MAX_QUEUE + 1

\* -------------------------------------------------------------------- C20
CalledNow(op) == nops' = nops + 1 /\ lastOp'.op = op

\* on(T, h) raises nothing and leaves T with its handlers followed by h
C20_RegisterStep ==
  CalledNow("on") =>
    LET T == lastOp'.a
    IN /\ lastOp'.err = "none"
       /\ events'[T] # NoArray
       /\ heap'[events'[T]] = Append(Reg(events, T), lastOp'.b)

\* emit(T, d) and off(T, h) on a topic without handlers raise nothing, have
\* no handler to call and leave the handlers of every topic as they were
C20_EmptyStep ==
  (CalledNow("emit") \/ CalledNow("off")) /\ Reg(events, lastOp'.a) = <<>> =>
    /\ lastOp'.err = "none"
    /\ Len(stack') > Len(stack) => stack'[Len(stack')].atcall = <<>>
    /\ \A t \in Topics :
         IF events'[t] = NoArray THEN Reg(events, t) = <<>>
         ELSE heap'[events'[t]] = Reg(events, t)

\* C20: for every topic string on(T, h) succeeds and appends h, and emit(T, d)
\* and off(T, h) on a topic with no handlers call nothing, raise nothing and
\* change no topic's handlers.
C20_EveryTopic == [][C20_RegisterStep /\ C20_EmptyStep]_vars

\* the same for the topics that name no member of Object.prototype
C20_PlainTopics ==
  [][lastOp'.a \in PlainTopics => C20_RegisterStep /\ C20_EmptyStep]_vars

\* -------------------------------------------------------------------- C15
\* the dispatches of the lifecycle event in progress
Lifecycle == {i \in InProgress("emit") : stack[i].name = LifecycleEvent}

\* a set(k, v) called while the lifecycle event is dispatched begins, on top
\* of that dispatch, the notification of the subscribers of k, which start
\* with those subscribed when the lifecycle event was emitted
C15_SetStep ==
  \A i \in Lifecycle :
    StepIs("set") /\ stack[i].heard[lastOp'.a] # <<>> =>
      /\ Len(stack') = Len(stack) + 1
      /\ stack'[Len(stack')].kind = "set"
      /\ stack'[Len(stack')].name = lastOp'.a
      /\ stack'[Len(stack')].data = lastOp'.b
      /\ IsPrefix(stack[i].heard[lastOp'.a], stack'[Len(stack')].atcall)

\* the dispatch of the lifecycle event returns as the innermost dispatch:
\* every notification begun during it is over
C15_ReturnStep ==
  \A i \in Lifecycle :
    Len(stack') < Len(stack) /\ done'.status = "returned" /\ done'.opno = stack[i].opno
      => i = Len(stack)

\* a notification begun during the dispatch of the lifecycle event calls the
\* subscribers it began with, in order, with the value set, and has called
\* them all when it returns
C15_Notified ==
  \A i \in Lifecycle :
    /\ \A j \in InProgress("set") :
         j > i => IsPrefix(stack[j].calls, Delivered(stack[j]))
    /\ Returned("set") /\ done.opno > stack[i].opno =>
         done.calls = Delivered(done)

\* C15: a callback f subscribed to key k before the lifecycle event is
\* emitted is called with v by every set(k, v) an initializer makes during
\* the dispatch of the lifecycle event, inside that dispatch, before the emit
\* returns.
C15_NotifiedInPass == [](C15_Notified) /\ [][C15_SetStep /\ C15_ReturnStep]_vars

C15_Witness ==
  /\ Len(stack) = 1
  /\ Lifecycle = {1}
  /\ Returned("set")
  /\ done.opno > stack[1].opno
  /\ stack[1].heard[done.name] # <<>>
  /\ IsPrefix(stack[1].heard[done.name], done.atcall)
  /\ done.calls = Delivered(done)

\* -------------------------------------------------------------------- C14
\* the dispatch of the lifecycle event that ended last
PassOver == done.kind = "emit" /\ done.name = LifecycleEvent

\* C14: ORBITAL.init's emit of the lifecycle event calls every initializer
\* that was registered when it began, one after another in the order of
\* their registration: at every moment of the pass the calls made are the
\* first ones of that order, and when the pass is over all of them are made.
C14_EveryInitializer ==
  /\ \A i \in Lifecycle :
       /\ stack[i].atcall = Initializers
       /\ IsPrefix(stack[i].calls, Delivered(stack[i]))
  /\ PassOver => done.atcall = Initializers /\ done.calls = Delivered(done)

\* -------------------------------------------------------------------- C16
\* C16: no module misses a startup value: a subscription to a key is made
\* before the lifecycle event is emitted if the bootstrap pass writes the
\* key, so a subscribe called during the pass finds no value written to its
\* key yet.
C16_NoMissedValue ==
  [][StepIs("subscribe") /\ Lifecycle # {} => setTo[lastOp'.a] = "never"]_vars

\* -------------------------------------------------------------------- C17
\* guard.init has thrown: the error is the last thing that happened
GuardRaised == lastOp.op = "throw" /\ lastOp.b = "guard.init"

\* what the script has installed since the page loaded it
Installed ==
  [handlers |-> {t \in AllTopics \ {LifecycleEvent} : IsArray(events, t)},
   subscribers |-> {k \in AllKeys : IsArray(listeners, k)},
   values |-> {k \in AllKeys : store[k] # Absent},
   listeners |-> {e \in DomEvents \ {"DOMContentLoaded"} : dom[e] # <<>>}]

\* C17: when window.ORBITAL is absent the guard raises, and at that moment
\* startup has been aborted: the guard is the only initializer called and
\* the pass has installed no handler, no subscriber, no state value and no
\* DOM listener.
C17_AbortsStartup ==
  /\ WindowORBITAL = Undefined /\ PassOver => done.status = "raised"
  /\ GuardRaised =>
       /\ done.calls = <<<<"guard.init", Undefined>>>>
       /\ Installed.handlers = {}
       /\ Installed.subscribers = {}
       /\ Installed.values = {}
       /\ Installed.listeners = {}

\* -------------------------------------------------------------------- C18
\* C18: the lifecycle event is emitted by the script, whose ORBITAL object
\* exists from its first statement on; so the guard never raises, and the
\* pass returns having called each of the registered initializers.
C18_GuardPasses ==
  /\ ~GuardRaised
  /\ PassOver =>
       /\ done.status = "returned"
       /\ Len(done.calls) = Len(Initializers)
       /\ \A i \in 1..Len(Initializers) : done.calls[i][1] = Initializers[i]

\* -------------------------------------------------------------------- C19
\* the host runs no script and has fired DOMContentLoaded
Settled == page["readyState"] # "loading" /\ task = <<>> /\ stack = <<>>

\* the lifecycle event is emitted by ORBITAL.init alone, run by the host as
\* the listener of DOMContentLoaded, and by no handler or subscriber
C19_EmitStep ==
  emitted'[LifecycleEvent] # emitted[LifecycleEvent] =>
    /\ stack = <<>>
    /\ task = <<Listener("ORBITAL.init", Undefined)>>
    /\ lastOp.op = "event" /\ lastOp.a = "DOMContentLoaded"
    /\ emitted[LifecycleEvent] = 0

\* the host delivers DOMContentLoaded to ORBITAL.init and to nothing else
C19_TriggerStep ==
  lastOp'.op = "event" /\ lastOp'.a = "DOMContentLoaded" /\ lastOp' # lastOp =>
    /\ page["readyState"] = "loading"
    /\ task' = <<Listener("ORBITAL.init", Undefined)>>

\* C19: in the shipped program the lifecycle event is emitted exactly once:
\* never before the host fires DOMContentLoaded, once by the time the
\* listeners of DOMContentLoaded have run, and never again whatever events
\* the host delivers afterwards; the one emit is ORBITAL.init's.
C19_ExactlyOnce ==
  /\ [](/\ emitted[LifecycleEvent] <= 1
        /\ page["readyState"] = "loading" => emitted[LifecycleEvent] = 0
        /\ Settled => emitted[LifecycleEvent] = 1)
  /\ [][C19_EmitStep /\ C19_TriggerStep]_vars

C19_Witness ==
  /\ Settled
  /\ emitted[LifecycleEvent] = 1
  /\ nevents = MaxEvents
  /\ emitted["theme:toggle"] > 0

\* -------------------------------------------------------------------- C21
\* C21: log(type, payload) and getQueue() raise no error: whatever the type,
\* the payload (omitted, null or a value), the length of the queue and the
\* value of config.debug, the call returns normally, and a log has made its
\* record.
C21_NeverRaises ==
  [][/\ lastOp'.op \in {"log", "getQueue"} =>
          lastOp'.err = "none" /\ stack' = stack /\ done' = done
     /\ CalledNow("log") =>
          /\ Len(records') = Len(records) + 1
          /\ queue' # <<>>
          /\ queue'[Len(queue')] = Len(records')
          /\ records'[Len(records')].type = lastOp'.a]_vars

C21_Witness ==
  /\ lastOp.op = "log"
  /\ lastOp.b = Null
  /\ lastOp.err = "none"
  /\ page["config.debug"] = "true"
  /\ page["console"] = "Analytics:"
  /\ Len(queue) = MAX_QUEUE
  /\ Len(records) > MAX_QUEUE
  /\ records[queue[Len(queue)]].payload = Null

\* -------------------------------------------------------------------- C26
\* the step returns from the outermost notification of a key
OutermostSetReturns ==
  /\ stack # <<>>
  /\ Len(stack') = Len(stack) - 1
  /\ done'.status = "returned"
  /\ done'.opno = Top.opno
  /\ Top.kind = "set"
  /\ \A i \in 1..(Len(stack) - 1) :
       ~(stack[i].kind = "set" /\ stack[i].name = Top.name)

\* C26: when the outermost set(k, ...) returns, the value each subscriber of
\* k was called with last, by that notification or by one begun during it,
\* is the value get(k) returns.
C26_LastDeliveredIsStored ==
  [][OutermostSetReturns =>
       \A h \in Handlers \cup Subscribers :
         done'.last[h] # "none" => done'.last[h] = StoreRead(Top.name)]_vars

\* the same for the notifications during which the key was not set again
C26_UnlessRewritten ==
  [][OutermostSetReturns /\ done'.writes = 0 =>
       \A h \in Handlers \cup Subscribers :
         done'.last[h] # "none" => done'.last[h] = StoreRead(Top.name)]_vars

\* -------------------------------------------------------------------- C23
\* the handler that the innermost emit is running throws
HandlerThrows ==
  /\ stack # <<>>
  /\ Top.kind = "emit"
  /\ Top.running
  /\ lastOp'.op = "throw"
  /\ lastOp' # lastOp

\* C23: emit does not catch what a handler throws.  The error leaves the
\* emit and every call around it up to the host; the pass is over with the
\* calls made so far, so the handlers after the failing one are not called;
\* what the earlier handlers stored, registered and logged stays, and the
\* registry of the bus is as it was.
C23_NotIsolated ==
  [][HandlerThrows =>
       /\ stack' = <<>>
       /\ done'.status = "raised"
       /\ done'.opno = Top.opno
       /\ done'.calls = Top.calls
       /\ lastOp'.a = Top.name
       /\ lastOp'.b = Top.calls[Len(Top.calls)][1]
       /\ events' = events /\ heap' = heap
       /\ listeners' = listeners /\ store' = store /\ storeProto' = storeProto
       /\ queue' = queue /\ records' = records
       /\ dom' = dom /\ page' = page]_vars

\* guard.init has thrown: 39 initializers ran before it and left their
\* values, handlers and subscribers; three initializers after it were not
\* called
C23_Witness ==
  /\ GuardRaised
  /\ stack = <<>>
  /\ done.status = "raised"
  /\ Len(done.calls) < Len(done.atcall)
  /\ Len(done.calls) > 1
  /\ Reg(events, LifecycleEvent) = Initializers
  /\ store["theme"] # Absent
  /\ IsArray(events, "theme:toggle")
  /\ store["feature:report"] = Absent

\* -------------------------------------------------------------------- C25
\* the topics uiTracking forwards and the type of record each one makes
Tracked == {"ui:button:click", "form:submit", "modal:open", "modal:close"}

TrackedType(topic) ==
  CASE topic = "ui:button:click" -> "button_click"
    [] topic = "form:submit" -> "form_submit"
    [] topic = "modal:open" -> "modal_open"
    [] topic = "modal:close" -> "modal_close"

RecordsOf(type) == SelectSeq(records, LAMBDA e : e.type = type)

\* C25: once the script has started and the host is idle, every emit made
\* of a tracked topic has left exactly one record of the matching type: as
\* many records as emits.  (The script emits no tracked topic before its
\* bootstrap pass, and the runs checked stay below the capacity of the
\* queue, so no record is evicted.)
C25_OneRecordPerPublish ==
  Settled =>
    \A topic \in Tracked : Len(RecordsOf(TrackedType(topic))) = emitted[topic]

\* the same for the topics that every publisher emits with a datum
C25_WithDatum ==
  Settled =>
    \A topic \in Tracked \ {"modal:close"} :
      Len(RecordsOf(TrackedType(topic))) = emitted[topic]

\* -------------------------------------------------------------------- C27
\* C27: modal:open and modal:close are emitted in turn, modal:open first,
\* and a modal:close is emitted only while a modal is open, with that modal
\* as its datum.
C27_Alternate ==
  [][/\ emitted'["modal:open"] # emitted["modal:open"] =>
          emitted["modal:open"] = emitted["modal:close"]
     /\ emitted'["modal:close"] # emitted["modal:close"] =>
          /\ emitted["modal:open"] = emitted["modal:close"] + 1
          /\ page["activeModal"] # Null
          /\ lastOp'.b = page["activeModal"]]_vars

\* -------------------------------------------------------------------- C28
OpenModals == {m \in Modals : page[m \o ".is-open"] = "true"}

\* C28: whenever the host is idle, at most one modal carries is-open, the
\* modal that does is activeModal, and the body carries modal-open exactly
\* when activeModal is not null.
C28_ModalState ==
  task = <<>> /\ stack = <<>> =>
    /\ Cardinality(OpenModals) <= 1
    /\ \A m \in OpenModals : page["activeModal"] = m
    /\ page["body.modal-open"] = "true" <=> page["activeModal"] # Null

\* -------------------------------------------------------------------- C24
\* every element of the array is in it twice
Twice(arr) == \A e \in Range(arr) : Count(arr, e) = 2

\* the second call of ORBITAL.init is over and nothing has run since
SecondPassOver == Settled /\ emitted[LifecycleEvent] = 2 /\ PassOver

EachCalledAgain ==
  /\ done.status = "returned"
  /\ done.atcall = Initializers
  /\ done.calls = Delivered(done)

InstalledTwice ==
  /\ \A t \in AppTopics : Twice(Reg(events, t))
  /\ \A k \in AppKeys : Twice(Reg(listeners, k))
  /\ \A e \in DomEvents \ {"DOMContentLoaded", "timeout"} : Twice(dom[e])
  /\ Len(Reg(listeners, "feature:report")) = 2

\* C24: a second call of ORBITAL.init calls each registered initializer
\* again, once, in registration order, and so leaves every handler,
\* subscriber and DOM listener the initializers install registered twice.
C24_SecondInit == SecondPassOver => EachCalledAgain /\ InstalledTwice

\* the same in a page that defines window.ORBITAL
C24_WhenGuardPasses ==
  SecondPassOver /\ WindowORBITAL # Undefined => EachCalledAgain /\ InstalledTwice

\* -------------------------------------------------------------------- C22
\* no dispatch of a topic or key is in progress inside another dispatch of
\* the same topic or key
NoReentry ==
  \A i, j \in 1..Len(stack) :
    i < j => ~(stack[i].kind = stack[j].kind /\ stack[i].name = stack[j].name)

\* the host runs no listener and no emit or set is on the call stack
Idle == task = <<>> /\ stack = <<>>

\* C22: whatever the host starts runs to its end: the listeners of an event
\* it delivers all finish, every emit and set leaves the call stack, and no
\* handler or subscriber emits the topic or sets the key that is being
\* dispatched to it.
C22_RunsToCompletion ==
  /\ [](NoReentry /\ nops < limit)
  /\ ~Idle ~> Idle

\* a click on the theme toggle has run to its end: the emit of theme:toggle
\* called toggleTheme, whose set was notified to the subscriber of theme
C22_Witness ==
  /\ Settled
  /\ lastOp.op = "set" /\ lastOp.a = "theme"
  /\ emitted["theme:toggle"] = 1
  /\ done.kind = "emit" /\ done.name = "theme:toggle"
  /\ done.status = "returned"
  /\ Len(done.calls) = 2
  /\ page["orbital:persist:theme"] = Stringify(store["theme"])

====
